---- MODULE Spec2Model ----
(***************************************************************************)
(* A model of the receipt processor (src/src/main.rs): the two axum        *)
(* handlers process_receipt and get_receipt_points, the scoring rules      *)
(* computed by process_receipt, and the process-wide ID_MAP behind a       *)
(* std::sync::RwLock.                                                      *)
(*                                                                         *)
(* Strings are sequences of characters, a character being a one-element    *)
(* TLA+ string; "e_acute" names U+00E9, whose UTF-8 encoding is two bytes.  *)
(* usize values are four 16-bit limbs, least significant first, so that    *)
(* 64-bit overflow is computed and not assumed away.                       *)
(***************************************************************************)
EXTENDS Integers, Sequences, FiniteSets, TLC

(***************************************************************************)
(* Bounds of the model.                                                    *)
(***************************************************************************)
\* Requests (handler invocations) in one behaviour of Spec.
MaxReq == 3
\* Items of a receipt in the scoring inputs.
MaxItems == 2
\* Largest whole-dollar part of the generated totals.
MaxDollars == 2

(***************************************************************************)
(* Characters and strings.                                                 *)
(***************************************************************************)
Digits == {"0", "1", "2", "3", "4", "5", "6", "7", "8", "9"}

DigitVal(c) ==
    CASE c = "0" -> 0 [] c = "1" -> 1 [] c = "2" -> 2 [] c = "3" -> 3
      [] c = "4" -> 4 [] c = "5" -> 5 [] c = "6" -> 6 [] c = "7" -> 7
      [] c = "8" -> 8 [] c = "9" -> 9

DigitChar(d) ==
    CASE d = 0 -> "0" [] d = 1 -> "1" [] d = 2 -> "2" [] d = 3 -> "3"
      [] d = 4 -> "4" [] d = 5 -> "5" [] d = 6 -> "6" [] d = 7 -> "7"
      [] d = 8 -> "8" [] d = 9 -> "9"

\* The letters of the strings drawn below; "e_acute" is U+00E9.
Letters == {"a", "b", "c", "d", "T", "e_acute"}

\* char::is_whitespace, on the characters drawn below.
IsWhitespace(c) == c = " "

\* char::is_alphanumeric: letters and digits of any script.
IsAlphanumeric(c) == c \in Letters \cup Digits

\* The number of bytes of a character's UTF-8 encoding.
Utf8Len(c) == IF c = "e_acute" THEN 2 ELSE 1

RECURSIVE ByteLenFrom(_, _)
ByteLenFrom(s, i) ==
    IF i > Len(s) THEN 0 ELSE Utf8Len(s[i]) + ByteLenFrom(s, i + 1)

\* str::len: the length in bytes.
ByteLen(s) == ByteLenFrom(s, 1)

\* str::chars().count(): the length in characters.
CharLen(s) == Len(s)

RECURSIVE TrimStart(_)
TrimStart(s) ==
    IF s # <<>> /\ IsWhitespace(s[1]) THEN TrimStart(Tail(s)) ELSE s

RECURSIVE TrimEnd(_)
TrimEnd(s) ==
    IF s # <<>> /\ IsWhitespace(s[Len(s)])
    THEN TrimEnd(SubSeq(s, 1, Len(s) - 1))
    ELSE s

\* str::trim.
Trim(s) == TrimEnd(TrimStart(s))

\* The index of the first sep in s at or after i, or 0.
RECURSIVE FindFrom(_, _, _)
FindFrom(s, sep, i) ==
    IF i > Len(s) THEN 0
    ELSE IF s[i] = sep THEN i
    ELSE FindFrom(s, sep, i + 1)

\* str::split(sep), collected: a string without sep is one field.
RECURSIVE Split(_, _)
Split(s, sep) ==
    LET k == FindFrom(s, sep, 1)
    IN  IF k = 0 THEN <<s>>
        ELSE <<SubSeq(s, 1, k - 1)>> \o Split(SubSeq(s, k + 1, Len(s)), sep)

(***************************************************************************)
(* Parsing integers: str::parse::<u32>() and ::<usize>().  The value is    *)
(* the sequence of its decimal digits without leading zeros (zero is <<>>) *)
(* so that the overflow check needs no wide arithmetic.                    *)
(***************************************************************************)
U32MaxDigits == <<4, 2, 9, 4, 9, 6, 7, 2, 9, 5>>
UsizeMaxDigits == <<1, 8, 4, 4, 6, 7, 4, 4, 0, 7, 3, 7, 0, 9, 5, 5, 1, 6, 1, 5>>

RECURSIVE AllDigits(_)
AllDigits(s) == s = <<>> \/ (s[1] \in Digits /\ AllDigits(Tail(s)))

RECURSIVE StripZeros(_)
StripZeros(ds) ==
    IF ds # <<>> /\ ds[1] = 0 THEN StripZeros(Tail(ds)) ELSE ds

\* Lexicographic <= on digit sequences of equal length.
RECURSIVE DigitsLeq(_, _)
DigitsLeq(a, b) ==
    \/ a = <<>>
    \/ a[1] < b[1]
    \/ a[1] = b[1] /\ DigitsLeq(Tail(a), Tail(b))

FitsIn(ds, maxDigits) ==
    \/ Len(ds) < Len(maxDigits)
    \/ Len(ds) = Len(maxDigits) /\ DigitsLeq(ds, maxDigits)

ParseErr == [ok |-> FALSE, ds |-> <<>>]

\* The digits after the optional "+".
ParseDigits(body, maxDigits) ==
    IF body = <<>> \/ ~AllDigits(body) THEN ParseErr
    ELSE IF ~FitsIn(StripZeros([i \in 1..Len(body) |-> DigitVal(body[i])]),
                    maxDigits)
    THEN ParseErr
    ELSE [ok |-> TRUE,
          ds |-> StripZeros([i \in 1..Len(body) |-> DigitVal(body[i])])]

\* An unsigned integer: an optional "+", then one or more digits, nothing
\* else (no "-", no blanks), and a value that fits the type.
ParseUnsigned(str, maxDigits) ==
    IF str # <<>> /\ str[1] = "+" THEN ParseDigits(Tail(str), maxDigits)
    ELSE ParseDigits(str, maxDigits)

RECURSIVE NatDigits(_)
NatDigits(n) == IF n = 0 THEN <<>> ELSE Append(NatDigits(n \div 10), n % 10)

\* value == n, for a parsed value and a small n.
NumIs(ds, n) == ds = NatDigits(n)

\* value % 2 != 0.
NumIsOdd(ds) == ds # <<>> /\ ds[Len(ds)] % 2 = 1

(***************************************************************************)
(* Parsing decimals: str::parse::<f64>().  A finite value is kept exactly,  *)
(* as mant * 10^e10 with mant a digit sequence without leading zeros.  The  *)
(* comparisons the handler makes on an f64 (== 0.0 after a subtraction, a   *)
(* remainder, a ceiling) agree with exact decimal arithmetic for values of  *)
(* at most eight significant digits: a multiple of 0.25 and a multiple of   *)
(* 5 are represented and multiplied exactly, 0.2 is rounded up by a         *)
(* relative 2^-54, which a product with a multiple of 5 rounds away, and    *)
(* any other value is farther from the compared value than the rounding     *)
(* error.  The inputs drawn below stay within that range, or are so large   *)
(* that the conversion to usize saturates.                                  *)
(***************************************************************************)
\* The spellings of infinity and NaN drawn below (Rust accepts any case).
InfWords ==
    { <<"i", "n", "f">>, <<"I", "n", "f">>,
      <<"i", "n", "f", "i", "n", "i", "t", "y">> }
NanWords == { <<"n", "a", "n">>, <<"N", "a", "N">> }

RECURSIVE DigitPrefixLen(_)
DigitPrefixLen(s) ==
    IF s # <<>> /\ s[1] \in Digits THEN 1 + DigitPrefixLen(Tail(s)) ELSE 0

RECURSIVE Pow10(_)
Pow10(k) == IF k = 0 THEN 1 ELSE 10 * Pow10(k - 1)

RECURSIVE DigitsNat(_)
DigitsNat(ds) ==
    IF ds = <<>> THEN 0
    ELSE 10 * DigitsNat(SubSeq(ds, 1, Len(ds) - 1)) + ds[Len(ds)]

F64Err == [ok |-> FALSE, kind |-> "err", neg |-> FALSE, mant |-> <<>>, e10 |-> 0]
F64NaN == [ok |-> TRUE, kind |-> "nan", neg |-> FALSE, mant |-> <<>>, e10 |-> 0]
F64Inf(neg) == [ok |-> TRUE, kind |-> "inf", neg |-> neg, mant |-> <<>>, e10 |-> 0]

\* A finite value; one beyond f64::MAX (about 1.8 * 10^308) parses to infinity.
F64Fin(neg, mant, e10) ==
    IF mant # <<>> /\ Len(mant) + e10 > 309 THEN F64Inf(neg)
    ELSE [ok |-> TRUE, kind |-> "fin", neg |-> neg, mant |-> mant, e10 |-> e10]

\* The digits of a string of digit characters, without leading zeros.
DigitsOf(str) == StripZeros([i \in 1..Len(str) |-> DigitVal(str[i])])

\* The exponent's value; one of more than four digits is beyond any f64.
ExpAbs(ds) == IF Len(ds) > 4 THEN 10000 ELSE DigitsNat(ds)

\* The exponent's digits: one or more, nothing else.
ParseExpDigits(neg, mant, nf, eneg, str) ==
    IF str = <<>> \/ ~AllDigits(str) THEN F64Err
    ELSE IF eneg THEN F64Fin(neg, mant, 0 - ExpAbs(DigitsOf(str)) - nf)
    ELSE F64Fin(neg, mant, ExpAbs(DigitsOf(str)) - nf)

\* What follows the digits int.frac: nothing, or "e" or "E", an optional
\* sign and the exponent's digits.
ParseExponent(neg, int, frac, rest) ==
    IF int = <<>> /\ frac = <<>> THEN F64Err
    ELSE IF rest = <<>> THEN F64Fin(neg, DigitsOf(int \o frac), 0 - Len(frac))
    ELSE IF rest[1] \notin {"e", "E"} THEN F64Err
    ELSE IF Len(rest) > 1 /\ rest[2] \in {"+", "-"}
         THEN ParseExpDigits(neg, DigitsOf(int \o frac), Len(frac),
                             rest[2] = "-", SubSeq(rest, 3, Len(rest)))
    ELSE ParseExpDigits(neg, DigitsOf(int \o frac), Len(frac), FALSE, Tail(rest))

\* The fraction: the digits that follow the ".".
ParseFraction(neg, int, afterDot, nf) ==
    ParseExponent(neg, int, SubSeq(afterDot, 1, nf),
                  SubSeq(afterDot, nf + 1, Len(afterDot)))

\* A number whose first ni characters are its integer digits.
ParseNumber(neg, body, ni) ==
    IF ni < Len(body) /\ body[ni + 1] = "."
    THEN ParseFraction(neg, SubSeq(body, 1, ni), SubSeq(body, ni + 2, Len(body)),
                       DigitPrefixLen(SubSeq(body, ni + 2, Len(body))))
    ELSE ParseExponent(neg, SubSeq(body, 1, ni), <<>>,
                       SubSeq(body, ni + 1, Len(body)))

\* What follows the sign: "inf", "infinity" or "nan", or a number.
ParseUnsignedF64(neg, body) ==
    IF body \in InfWords THEN F64Inf(neg)
    ELSE IF body \in NanWords THEN F64NaN
    ELSE ParseNumber(neg, body, DigitPrefixLen(body))

\* An optional sign, then "inf", "infinity" or "nan", or digits with an
\* optional "." and an optional exponent; at least one digit; nothing else.
ParseF64(str) ==
    IF str # <<>> /\ str[1] \in {"+", "-"}
    THEN ParseUnsignedF64(str[1] = "-", Tail(str))
    ELSE ParseUnsignedF64(FALSE, str)

\* amount - amount.trunc() == 0.0: the value is a whole number.  Infinity
\* minus infinity and NaN are NaN, which equals nothing.
IsWhole(f) ==
    /\ f.kind = "fin"
    /\ \/ f.mant = <<>>
       \/ f.e10 >= 0
       \/ /\ 0 - f.e10 <= Len(f.mant)
          /\ DigitsNat(f.mant) % Pow10(0 - f.e10) = 0

\* (amount * 100.0) % 25.0 == 0.0: four times the value is a whole number
\* (for a whole number beyond 2^53 the f64 product is not exact; none is drawn).
IsQuarterMultiple(f) ==
    /\ f.kind = "fin"
    /\ \/ f.mant = <<>>
       \/ f.e10 >= 0
       \/ f.e10 = -1 /\ DigitsNat(f.mant) % 5 = 0
       \/ /\ f.e10 <= -2
          /\ 0 - f.e10 <= Len(f.mant) + 1
          /\ DigitsNat(f.mant) % (25 * Pow10(0 - f.e10 - 2)) = 0

(***************************************************************************)
(* usize: 64 bits, as four limbs of 16 bits, least significant first.      *)
(***************************************************************************)
LimbBase == 2 ^ 16

\* A small number (below 2^31) as a usize.
U(n) == <<n % LimbBase, n \div LimbBase, 0, 0>>

UsizeMax == <<LimbBase - 1, LimbBase - 1, LimbBase - 1, LimbBase - 1>>

\* a + b in 64 bits: the wrapped sum, and whether it overflowed.
AddU(a, b) ==
    LET s1 == a[1] + b[1]
        s2 == a[2] + b[2] + s1 \div LimbBase
        s3 == a[3] + b[3] + s2 \div LimbBase
        s4 == a[4] + b[4] + s3 \div LimbBase
    IN  [v |-> <<s1 % LimbBase, s2 % LimbBase, s3 % LimbBase, s4 % LimbBase>>,
         overflow |-> s4 \div LimbBase > 0]

\* u / 10 and u % 10.
DivMod10(u) ==
    LET t4 == u[4]
        t3 == (t4 % 10) * LimbBase + u[3]
        t2 == (t3 % 10) * LimbBase + u[2]
        t1 == (t2 % 10) * LimbBase + u[1]
    IN  [q |-> <<t1 \div 10, t2 \div 10, t3 \div 10, t4 \div 10>>, r |-> t1 % 10]

RECURSIVE FormatDigits(_)
FormatDigits(u) ==
    IF u = U(0) THEN <<>>
    ELSE FormatDigits(DivMod10(u).q) \o <<DigitChar(DivMod10(u).r)>>

\* format!("{}", points): the decimal digits, "0" for zero.
FormatUsize(u) == IF u = U(0) THEN <<"0">> ELSE FormatDigits(u)

\* (price * 0.2).ceil() as usize.  The cast saturates: NaN and negative
\* values give 0, values of 2^64 and more (infinity included) usize::MAX.
\* A finite positive value is either below 2^31 or at least 10^21 here.
CeilFifthAsUsize(f) ==
    CASE f.kind = "nan" -> U(0)
      [] f.kind = "inf" -> IF f.neg THEN U(0) ELSE UsizeMax
      [] f.kind = "fin" /\ (f.neg \/ f.mant = <<>>) -> U(0)
      [] f.kind = "fin" /\ ~f.neg /\ f.mant # <<>> /\ Len(f.mant) + f.e10 >= 22 ->
            UsizeMax
      [] f.kind = "fin" /\ ~f.neg /\ f.mant # <<>> /\ f.e10 >= 0
            /\ Len(f.mant) + f.e10 <= 9 ->
            U((DigitsNat(f.mant) * Pow10(f.e10) + 4) \div 5)
      [] f.kind = "fin" /\ ~f.neg /\ f.mant # <<>> /\ f.e10 < 0
            /\ Len(f.mant) <= 8 /\ 0 - f.e10 > 8 ->
            U(1)
      [] f.kind = "fin" /\ ~f.neg /\ f.mant # <<>> /\ f.e10 < 0
            /\ Len(f.mant) <= 8 /\ 0 - f.e10 <= 8 ->
            U((DigitsNat(f.mant) + 5 * Pow10(0 - f.e10) - 1)
                 \div (5 * Pow10(0 - f.e10)))

(***************************************************************************)
(* The scoring rules, as process_receipt computes them.                    *)
(***************************************************************************)
\* usize addition: with overflow checks (a debug build) an overflow panics,
\* without them (a release build) the sum wraps.
Plus(a, b, checks) ==
    [panic |-> checks /\ AddU(a, b).overflow, v |-> AddU(a, b).v]

\* retailer.chars().filter(|c| c.is_alphanumeric()).count()
CountAlphanumeric(retailer) ==
    U(Cardinality({i \in 1..Len(retailer) : IsAlphanumeric(retailer[i])}))

\* The round-dollar test of a parsed total.
RoundCheck(amount) == IsWhole(amount)

\* The amount in cents, rounded to the nearest integer, is divisible by 25:
\* what a rounding implementation of the quarter-multiple test computes.
RoundedCentsDivisible(f) ==
    /\ f.kind = "fin"
    /\ \/ f.mant = <<>>
       \/ f.e10 >= -2 /\ IsQuarterMultiple(f)
       \/ /\ f.e10 <= -3
          /\ ((DigitsNat(f.mant) + 5 * Pow10(0 - f.e10 - 3))
                 \div Pow10(0 - f.e10 - 2)) % 25 = 0

\* The quarter-multiple test with the cents rounded first.
QuarterCheck_Rounded(amount) == RoundedCentsDivisible(amount)

\* The quarter-multiple test of a parsed total.
QuarterCheck(amount) == IsQuarterMultiple(amount)

\* (round, quarter) of the parsed total: both 0 when it did not parse.
TotalPoints(amount) ==
    IF amount.ok
    THEN [round |-> IF RoundCheck(amount) THEN U(50) ELSE U(0),
          quarter |-> IF QuarterCheck(amount) THEN U(25) ELSE U(0)]
    ELSE [round |-> U(0), quarter |-> U(0)]

\* Lines 56-71.
TotalRules(total) == TotalPoints(ParseF64(total))

\* item.desc.trim().len(): the trimmed description's length, in bytes.
DescLen(desc) == ByteLen(Trim(desc))

\* What one iteration of the item loop adds to item_points, given the
\* parsed price and the description's length: nothing (adds is FALSE)
\* unless the price parses and the length is a multiple of 3.
ItemPoints(price, len) ==
    IF price.ok /\ len % 3 = 0
    THEN [adds |-> TRUE, v |-> CeilFifthAsUsize(price)]
    ELSE [adds |-> FALSE, v |-> U(0)]

\* Lines 75-80.
ItemAdd(item) == ItemPoints(ParseF64(item.price), DescLen(item.desc))

\* The accumulator after an iteration that adds inc.
Accumulate(acc, inc, checks) ==
    IF inc.adds
    THEN [panic |-> Plus(acc.v, inc.v, checks).panic,
          v |-> Plus(acc.v, inc.v, checks).v,
          added |-> Append(acc.added, inc.v)]
    ELSE [acc EXCEPT !.added = Append(@, U(0))]

\* One iteration of the item loop on the accumulator acc; added records
\* what each iteration added.
ItemStep(acc, item, checks) == Accumulate(acc, ItemAdd(item), checks)

\* The item loop from item i on.  A panic ends the handler, so the loop
\* stops there.
RECURSIVE ItemLoop(_, _, _, _)
ItemLoop(items, i, acc, checks) ==
    IF i > Len(items) \/ acc.panic THEN acc
    ELSE ItemLoop(items, i + 1, ItemStep(acc, items[i], checks), checks)

\* The parsed day is odd.
DayIsOdd(day) == day.ok /\ NumIsOdd(day.ds)

\* The third field of the date, when there is one.
ThirdFieldIsOdd(fields) ==
    IF Len(fields) >= 3
    THEN DayIsOdd(ParseUnsigned(fields[3], UsizeMaxDigits))
    ELSE FALSE

\* odd_date: the third "-"-separated field parses as a usize and is odd.
odd_date(date_str) == ThirdFieldIsOdd(Split(date_str, "-"))

\* The window test of a parsed hour and minute (minute >= 0 always holds).
InWindow(hour, minute) ==
    \/ NumIs(hour, 14)
    \/ NumIs(hour, 15) /\ NumIs(minute, 0)
    \/ NumIs(hour, 16) /\ NumIs(minute, 0)

\* Lines 112-116: both parse, and the time is in the window.
ParsedInWindow(hour, minute) ==
    hour.ok /\ minute.ok /\ InWindow(hour.ds, minute.ds)

\* The first two fields of the time, when there are two.
FirstTwoInWindow(fields) ==
    IF Len(fields) >= 2
    THEN ParsedInWindow(ParseUnsigned(fields[1], U32MaxDigits),
                        ParseUnsigned(fields[2], U32MaxDigits))
    ELSE FALSE

\* time_check: the first two ":"-separated fields parse as u32 and the
\* time is in the window.
time_check(time_str) == FirstTwoInWindow(Split(time_str, ":"))

NoLocals ==
    [panic |-> FALSE, alphanum |-> U(0), round |-> U(0), quarter |-> U(0),
     pairs |-> U(0), added |-> <<>>, item_points |-> U(0), odd |-> U(0),
     time |-> U(0), points |-> U(0)]

\* Line 87: the sum, left to right, of the rules' contributions.
SumPoints(alphanum, tr, pairs, loop, odd, time, checks) ==
    LET s1 == Plus(alphanum, tr.round, checks)
        s2 == Plus(s1.v, tr.quarter, checks)
        s3 == Plus(s2.v, loop.v, checks)
        s4 == Plus(s3.v, odd, checks)
        s5 == Plus(s4.v, time, checks)
    IN  [panic |-> loop.panic \/ s1.panic \/ s2.panic \/ s3.panic
                     \/ s4.panic \/ s5.panic,
         alphanum |-> alphanum, round |-> tr.round, quarter |-> tr.quarter,
         pairs |-> pairs, added |-> loop.added, item_points |-> loop.v,
         odd |-> odd, time |-> time, points |-> s5.v]

\* The locals of process_receipt when it reaches the lock, or panic = TRUE
\* when an addition overflowed under overflow checks.
ComputePoints(receipt, checks) ==
    SumPoints(CountAlphanumeric(receipt.retailer),
              TotalRules(receipt.total),
              U(5 * (Len(receipt.items) \div 2)),
              ItemLoop(receipt.items, 1,
                       [panic |-> FALSE,
                        v |-> U(5 * (Len(receipt.items) \div 2)),
                        added |-> <<>>], checks),
              IF odd_date(receipt.date) THEN U(6) ELSE U(0),
              IF time_check(receipt.time) THEN U(10) ELSE U(0),
              checks)

(***************************************************************************)
(* The inputs.                                                             *)
(***************************************************************************)
TwoDigits(n) == <<DigitChar(n \div 10), DigitChar(n % 10)>>
ThreeDigits(n) == <<DigitChar(n \div 100)>> \o TwoDigits(n % 100)

\* "HH:MM"
TimeString(h, m) == TwoDigits(h) \o <<":">> \o TwoDigits(m)

\* "D.CC", a total in dollars and cents
CentsString(d, c) == <<DigitChar(d)>> \o <<".">> \o TwoDigits(c)

\* "D.MMM", a total with three decimals
MillsString(d, m) == <<DigitChar(d)>> \o <<".">> \o ThreeDigits(m)

Hours == 13..17
Minutes == {0, 1, 30, 59}
Cents == 0..99
Mills == {4, 246, 249, 250, 254, 500, 996}

MalformedTimes ==
    { <<>>, <<"1", "4">>, <<"1", "4", ":">>, <<":", "0", "0">>,
      <<" ", "1", "4", ":", "0", "0">>, <<"1", "4", ":", "a", "b">>,
      <<"-", "1", "4", ":", "0", "0">> }
\* Times that parse although they are not "HH:MM".
OddTimes ==
    { <<"+", "1", "4", ":", "5", "9">>, <<"1", "4", ":", "0", "0", ":", "3", "0">>,
      <<"1", "5", ":", "7">>, <<"0", "1", "6", ":", "0", "0", "0">> }
Times == {TimeString(h, m) : h \in Hours, m \in Minutes}
            \cup MalformedTimes \cup OddTimes

MalformedTotals ==
    { <<>>, <<".">>, <<"a", "b", "c">>, <<"1", ",", "0", "0">>,
      <<" ", "1", ".", "0", "0">>, <<"1", "e">> }
SpecialTotals ==
    { <<"i", "n", "f">>, <<"-", "i", "n", "f">>, <<"N", "a", "N">>,
      <<"9">>, <<"9", ".">>, <<".", "5">>, <<"-", "0", ".", "2", "5">>,
      <<"-", "1", ".", "1", "0">>, <<"1", "e", "2">>, <<"2", "5", "e", "-", "2">> }
Totals ==
    {CentsString(d, c) : d \in 0..MaxDollars, c \in Cents}
        \cup {MillsString(d, m) : d \in 0..MaxDollars, m \in Mills}
        \cup MalformedTotals \cup SpecialTotals

Retailers ==
    { <<>>, <<"T">>, <<"T", " ", "a", "&", "b">>, <<"e_acute", "1", "-", "2">>,
      <<" ", "&", " ">> }

Dates ==
    { <<"2", "0", "2", "2", "-", "0", "1", "-", "0", "1">>,
      <<"2", "0", "2", "2", "-", "0", "1", "-", "0", "2">>,
      <<"2", "0", "2", "2", "-", "0", "1">>,
      <<"2", "0", "2", "2", "-", "0", "1", "-", "3", "1", "-", "0", "2">>,
      <<"2", "0", "2", "2", "-", "0", "1", "-", "a", "b">>,
      <<"2", "0", "2", "2", "-", "0", "1", "-", "+", "7">>,
      <<"2", "0", "2", "2", "-", "0", "1", "-">>,
      <<>> }

Descs ==
    { <<"a", "b", "c">>, <<" ", "a", "b", " ">>, <<" ", " ">>,
      <<"e_acute", "a">>, <<"e_acute", "a", "b">> }
Prices ==
    { <<"5", ".", "0", "0">>, <<"6", ".", "4", "9">>, <<"-", "1", "0">>,
      <<"i", "n", "f">>, <<"a", "b">> }
Items == [desc : Descs, price : Prices]

\* The sequences of at most n items.
RECURSIVE ItemSeqs(_)
ItemSeqs(n) ==
    IF n = 0 THEN {<<>>}
    ELSE ItemSeqs(n - 1)
            \cup {Append(q, it) : q \in ItemSeqs(n - 1), it \in Items}

\* A receipt that earns nothing: every rule is off.
Plain ==
    [retailer |-> <<>>, date |-> <<>>, time |-> <<>>, items |-> <<>>,
     total |-> <<>>]

\* A receipt whose one item alone earns usize::MAX.
Huge ==
    [Plain EXCEPT !.items =
        << [desc |-> <<"a", "b", "c">>, price |-> <<"i", "n", "f">>] >>]

\* A receipt on which every rule fires, worth 1 + 50 + 25 + 5 + 2 + 6 + 10.
Full ==
    [retailer |-> <<"T">>,
     date |-> <<"2", "0", "2", "2", "-", "0", "1", "-", "0", "1">>,
     time |-> <<"1", "4", ":", "3", "0">>,
     items |-> << [desc |-> <<"a", "b", "c">>, price |-> <<"5", ".", "0", "0">>],
                  [desc |-> <<"a", "b", "c">>, price |-> <<"5", ".", "0", "0">>] >>,
     total |-> <<"1", ".", "0", "0">>]

\* The receipts that vary one field of a base receipt.
VaryOne(base) ==
    {[base EXCEPT !.retailer = x] : x \in Retailers}
        \cup {[base EXCEPT !.date = x] : x \in Dates}
        \cup {[base EXCEPT !.time = x] : x \in Times}
        \cup {[base EXCEPT !.total = x] : x \in Totals}

\* The receipts the scoring specification draws from.
ScoreInputs ==
    VaryOne(Plain) \cup VaryOne(Huge) \cup VaryOne(Full)
        \cup {[Plain EXCEPT !.items = x] : x \in ItemSeqs(MaxItems)}
        \cup {[Full EXCEPT !.items = x] : x \in ItemSeqs(MaxItems)}

\* The receipts the concurrent specification draws from.
Receipts == {Plain, Full, [Huge EXCEPT !.retailer = <<"T">>]}

(***************************************************************************)
(* The state.                                                              *)
(***************************************************************************)
VARIABLES
    ID_MAP,           \* the map behind the lock: id -> points, as a string
    writer,           \* the task holding the RwLock's write guard, or 0
    poisoned,         \* the RwLock's poison flag
    overflow_checks,  \* whether the build checks integer overflow
    next_uuid,        \* the number of identifiers generated so far
    task,             \* the handler invocations
    returned          \* the identifiers sent back in a ProcessResponse

vars == <<ID_MAP, writer, poisoned, overflow_checks, next_uuid, task, returned>>

Tasks == 1..MaxReq

\* The identifiers a query may carry: every one the process will generate,
\* and 0, which it never generates.
QueryIds == 0..MaxReq

Unknown == <<"U", "n", "k", "n", "o", "w", "n">>
LowerUnknown == <<"u", "n", "k", "n", "o", "w", "n">>

NoTask ==
    [kind |-> "none", pc |-> "idle", receipt |-> Plain, id |-> 0,
     locals |-> NoLocals, inserts |-> 0, told |-> FALSE,
     resp_id |-> 0, resp_points |-> <<>>]

Init ==
    /\ ID_MAP = <<>>
    /\ writer = 0
    /\ poisoned = FALSE
    /\ overflow_checks \in BOOLEAN
    /\ next_uuid = 0
    /\ task = [r \in Tasks |-> NoTask]
    /\ returned = {}

\* An identifier generator that repeats itself.
NewId_Reused(n) == 1

\* uuid::Uuid::new_v4().to_string(): an identifier no earlier call produced
\* (122 random bits), the n-th one being n.
NewId(n) == n

\* An insert that is lost.
Insert_Skipped(map, key, value) == map

\* HashMap::insert: the entry is added, or replaces the one under the key.
Insert(map, key, value) ==
    [k \in DOMAIN map \cup {key} |-> IF k = key THEN value ELSE map[k]]

\* id_map.get(&id).unwrap_or(&default)
GetOrDefault(map, key, default) ==
    IF key \in DOMAIN map THEN map[key] ELSE default

\* A lookup that fills in the default: entry(id).or_insert(default).
MapAfterGet_OrInsert(map, key) ==
    [k \in DOMAIN map \cup {key} |->
        IF k \in DOMAIN map THEN map[k]
        ELSE <<"U", "n", "k", "n", "o", "w", "n">>]

\* The map after get_receipt_points has read it through its mutable guard.
MapAfterGet(map, key) == map

\* A handler that takes the guard before it computes the points: any panic
\* of its poisons the lock.
PoisonedBy_AnyPanic(r, panic) == panic

\* A panic poisons the lock when the panicking task holds its guard.
PoisonedBy(r, panic) == panic /\ writer = r

\* Tasks are taken in order: which task number serves a request is no
\* matter, so r starts only when r - 1 has.
MayStart(r) ==
    /\ task[r].kind = "none"
    /\ IF r = 1 THEN TRUE ELSE task[r - 1].kind # "none"

(***************************************************************************)
(* process_receipt.  The handler has no await: between its steps other     *)
(* tasks run on the runtime's other worker threads.                        *)
(***************************************************************************)
\* Lines 47-87: the identifier and the points.  An overflowing addition
\* panics under overflow checks and the handler ends there, before it ever
\* asks for the lock.
process_receipt_start(r, receipts) ==
    /\ MayStart(r)
    /\ \E rc \in receipts :
          LET c == ComputePoints(rc, overflow_checks)
          IN  /\ task' = [task EXCEPT ![r] =
                    [@ EXCEPT !.kind = "process",
                              !.receipt = rc,
                              !.id = NewId(next_uuid + 1),
                              !.locals =
                                  IF c.panic
                                  THEN [NoLocals EXCEPT !.panic = TRUE]
                                  ELSE c,
                              !.pc = IF c.panic THEN "panicked" ELSE "lock"]]
              /\ poisoned' = (poisoned \/ PoisonedBy(r, c.panic))
    /\ next_uuid' = next_uuid + 1
    /\ UNCHANGED <<ID_MAP, writer, overflow_checks, returned>>

\* Line 89: ID_MAP.write() waits for the lock; on a poisoned lock it is
\* Err and the block is skipped.
process_receipt_lock(r) ==
    /\ task[r].kind = "process"
    /\ task[r].pc = "lock"
    /\ writer = 0
    /\ IF poisoned
       THEN /\ task' = [task EXCEPT ![r].pc = "respond"]
            /\ UNCHANGED writer
       ELSE /\ task' = [task EXCEPT ![r].pc = "insert"]
            /\ writer' = r
    /\ UNCHANGED <<ID_MAP, poisoned, overflow_checks, next_uuid, returned>>

\* Line 90: the insert, under the guard.
process_receipt_insert(r) ==
    /\ task[r].kind = "process"
    /\ task[r].pc = "insert"
    /\ writer = r
    /\ ID_MAP' = Insert(ID_MAP, task[r].id, FormatUsize(task[r].locals.points))
    /\ task' = [task EXCEPT ![r].pc = "unlock", ![r].inserts = @ + 1]
    /\ UNCHANGED <<writer, poisoned, overflow_checks, next_uuid, returned>>

\* Line 91: the guard is dropped at the end of the block.
process_receipt_unlock(r) ==
    /\ task[r].kind = "process"
    /\ task[r].pc = "unlock"
    /\ writer = r
    /\ writer' = 0
    /\ task' = [task EXCEPT ![r].pc = "respond"]
    /\ UNCHANGED <<ID_MAP, poisoned, overflow_checks, next_uuid, returned>>

\* Lines 93-94: the identifier goes back to the caller.
process_receipt_respond(r) ==
    /\ task[r].kind = "process"
    /\ task[r].pc = "respond"
    /\ task' = [task EXCEPT ![r].pc = "done", ![r].resp_id = task[r].id]
    /\ returned' = returned \cup {task[r].id}
    /\ UNCHANGED <<ID_MAP, writer, poisoned, overflow_checks, next_uuid>>

(***************************************************************************)
(* get_receipt_points.                                                     *)
(***************************************************************************)
\* Line 123: the request's identifier.  told records whether a response of
\* process_receipt had carried that identifier when the request was made.
get_receipt_points_start(r) ==
    /\ MayStart(r)
    /\ \E q \in QueryIds :
          task' = [task EXCEPT ![r] =
                    [@ EXCEPT !.kind = "get", !.id = q, !.pc = "lock",
                              !.told = (q \in returned)]]
    /\ UNCHANGED <<ID_MAP, writer, poisoned, overflow_checks, next_uuid, returned>>

\* Line 124: ID_MAP.write() waits for the lock; on a poisoned lock it is
\* Err and lines 132-135 answer "unknown".
get_receipt_points_lock(r) ==
    /\ task[r].kind = "get"
    /\ task[r].pc = "lock"
    /\ writer = 0
    /\ IF poisoned
       THEN /\ task' = [task EXCEPT ![r].pc = "done",
                                    ![r].resp_points = LowerUnknown]
            /\ UNCHANGED writer
       ELSE /\ task' = [task EXCEPT ![r].pc = "read"]
            /\ writer' = r
    /\ UNCHANGED <<ID_MAP, poisoned, overflow_checks, next_uuid, returned>>

\* Lines 125-129: the lookup, under the guard, and the response built.
get_receipt_points_read(r) ==
    /\ task[r].kind = "get"
    /\ task[r].pc = "read"
    /\ writer = r
    /\ task' = [task EXCEPT ![r].pc = "return",
                            ![r].resp_points =
                                GetOrDefault(ID_MAP, task[r].id, Unknown)]
    /\ ID_MAP' = MapAfterGet(ID_MAP, task[r].id)
    /\ UNCHANGED <<writer, poisoned, overflow_checks, next_uuid, returned>>

\* Line 130: the return drops the guard.
get_receipt_points_return(r) ==
    /\ task[r].kind = "get"
    /\ task[r].pc = "return"
    /\ writer = r
    /\ writer' = 0
    /\ task' = [task EXCEPT ![r].pc = "done"]
    /\ UNCHANGED <<ID_MAP, poisoned, overflow_checks, next_uuid, returned>>

(***************************************************************************)
(* The specifications.                                                     *)
(***************************************************************************)
Step(r) ==
    \/ process_receipt_lock(r)
    \/ process_receipt_insert(r)
    \/ process_receipt_unlock(r)
    \/ process_receipt_respond(r)
    \/ get_receipt_points_lock(r)
    \/ get_receipt_points_read(r)
    \/ get_receipt_points_return(r)

\* Concurrent requests of both kinds.
Next ==
    \E r \in Tasks :
        \/ process_receipt_start(r, Receipts)
        \/ get_receipt_points_start(r)
        \/ Step(r)

Spec == Init /\ [][Next]_vars

\* The same, with every started handler scheduled until it ends.
FairSpec == Spec /\ \A r \in Tasks : WF_vars(Step(r))

\* One process_receipt on each of the scoring inputs.
ScoreNext ==
    \/ process_receipt_start(1, ScoreInputs)
    \/ process_receipt_lock(1)
    \/ process_receipt_insert(1)
    \/ process_receipt_unlock(1)
    \/ process_receipt_respond(1)

ScoreSpec == Init /\ [][ScoreNext]_vars

(***************************************************************************)
(* The properties.                                                         *)
(***************************************************************************)
Started(r) == task[r].kind # "none"
ProcessDone(r) == task[r].kind = "process" /\ task[r].pc = "done"
GetDone(r) == task[r].kind = "get" /\ task[r].pc = "done"

\* The task that generated identifier k has computed that receipt's score.
ScoreOf(k) ==
    {FormatUsize(task[p].locals.points) :
        p \in {q \in Tasks : task[q].kind = "process" /\ task[q].id = k}}

\* C1: once process_receipt has returned an id, every get_receipt_points
\* for it that is issued afterwards answers the score computed for that
\* receipt, never the unknown sentinel; and no process_receipt returns an
\* id whose entry it did not write.
C1_ReturnedIdIsServed ==
    /\ \A p \in Tasks : ProcessDone(p) => task[p].resp_id \in DOMAIN ID_MAP
    /\ \A g \in Tasks :
          GetDone(g) /\ task[g].told =>
              /\ task[g].resp_points \in ScoreOf(task[g].id)
              /\ task[g].resp_points \notin {Unknown, LowerUnknown}

\* A query issued after its id was returned has been answered with digits.
C1_Witness ==
    \E g \in Tasks :
        /\ GetDone(g) /\ task[g].told
        /\ task[g].resp_points = <<"9", "9">>

\* C2: an identifier that has been written stays in the store, with the
\* value written at its creation, through every step of every handler.
C2_StoreOnlyGrows ==
    [][\A k \in DOMAIN ID_MAP :
          k \in DOMAIN ID_MAP' /\ ID_MAP'[k] = ID_MAP[k]]_vars

\* Two receipts with different scores are stored and a query has read one.
C2_Witness ==
    /\ \E j, k \in DOMAIN ID_MAP : ID_MAP[j] # ID_MAP[k]
    /\ \E g \in Tasks : GetDone(g) /\ task[g].id \in DOMAIN ID_MAP

C4_EveryRequestCompletes ==
    \A r \in Tasks :
        Started(r) =>
            \/ task[r].pc = "done"
            \/ ENABLED Step(r)
            \/ writer \notin {0, r} /\ ENABLED Step(writer)

\* C10: get_receipt_points leaves the store as it found it; the store
\* changes only by the insert of a process_receipt, which adds one entry,
\* and a process_receipt inserts once.
C10_OnlyInsertChangesStore ==
    /\ [][ID_MAP' # ID_MAP =>
            \E r \in Tasks :
                /\ task[r].kind = "process"
                /\ task[r].pc = "insert" /\ task'[r].pc = "unlock"
                /\ task[r].id \notin DOMAIN ID_MAP
                /\ DOMAIN ID_MAP' = DOMAIN ID_MAP \cup {task[r].id}]_vars
    /\ [](\A r \in Tasks :
            /\ task[r].inserts <= 1
            /\ ProcessDone(r) => task[r].inserts = 1
            /\ task[r].kind = "get" => task[r].inserts = 0)

\* Queries for a stored id and for an absent one have both been answered,
\* and the store holds the one entry the one process_receipt inserted.
C10_Witness ==
    /\ Cardinality(DOMAIN ID_MAP) = 1
    /\ \E g \in Tasks : GetDone(g) /\ task[g].id \in DOMAIN ID_MAP
                           /\ task[g].resp_points # Unknown
    /\ \E g \in Tasks : GetDone(g) /\ task[g].id \notin DOMAIN ID_MAP

(***************************************************************************)
(* The properties of the scoring rules, on the one request of ScoreSpec.   *)
(***************************************************************************)
\* The request has computed its points and reached the lock.
Scored == task[1].kind = "process" /\ task[1].pc # "panicked"

\* C5: the afternoon rule gives 10 points at hour 14 and at hour 15, any
\* minute, and at 16:00, and nothing at any other time or when the time
\* does not parse.
C5_AfternoonRule ==
    Scored =>
        /\ task[1].locals.time \in {U(0), U(10)}
        /\ \A h \in Hours, m \in Minutes :
              task[1].receipt.time = TimeString(h, m) =>
                  (task[1].locals.time = U(10)
                      <=> (h = 14 \/ h = 15 \/ (h = 16 /\ m = 0)))
        /\ task[1].receipt.time \in MalformedTimes => task[1].locals.time = U(0)

\* The totals "d.cc" and "d.mmm", each with its value in thousandths of a
\* dollar.
TotalValues ==
    {<<CentsString(d, c), 1000 * d + 10 * c>> : d \in 0..MaxDollars, c \in Cents}
        \cup {<<MillsString(d, m), 1000 * d + m>> : d \in 0..MaxDollars, m \in Mills}

\* The total "d.cc" or "d.mmm" of the request, in thousandths of a dollar.
Thousandths ==
    {p[2] : p \in {q \in TotalValues : q[1] = task[1].receipt.total}}

\* C6, as claimed: the quarter rule gives 25 points exactly when the cents,
\* rounded to the nearest integer, are divisible by 25.
C6_QuarterOfRoundedCents ==
    Scored =>
        \A t \in Thousandths :
            task[1].locals.quarter = U(25) <=> ((t + 5) \div 10) % 25 = 0

\* C6, as amended: the quarter rule gives 25 points exactly when the total
\* is an exact multiple of 0.25, no rounding (0.254 earns none), and 0
\* otherwise; the round-dollar rule gives its 50 exactly on whole dollars,
\* so a whole-dollar total earns both; infinity and NaN earn neither.
C6_QuarterOfExactAmount ==
    Scored =>
        /\ task[1].locals.quarter \in {U(0), U(25)}
        /\ \A t \in Thousandths :
              /\ task[1].locals.quarter = U(25) <=> t % 250 = 0
              /\ task[1].locals.round = U(50) <=> t % 1000 = 0
        /\ task[1].receipt.total
              \in {<<"i", "n", "f">>, <<"-", "i", "n", "f">>, <<"N", "a", "N">>}
              => task[1].locals.quarter = U(0) /\ task[1].locals.round = U(0)
        /\ task[1].receipt.total \in {<<"-", "0", ".", "2", "5">>, <<".", "5">>}
              => task[1].locals.quarter = U(25) /\ task[1].locals.round = U(0)

\* The total "0.250" has earned the quarter rule's 25 and not the
\* round-dollar rule's 50, and the request has stored its score.
C6_Witness ==
    /\ ProcessDone(1)
    /\ task[1].receipt.total = MillsString(0, 250)
    /\ task[1].locals.quarter = U(25)
    /\ task[1].locals.round = U(0)

\* ceil(price * 0.2) of the prices whose fifth is a small positive number.
ClaimedCeil(price) ==
    CASE price = <<"5", ".", "0", "0">> -> 1
      [] price = <<"6", ".", "4", "9">> -> 2

\* C7: each item adds ceil(price * 0.2) exactly when its price parses and
\* the length in characters of its trimmed description is a multiple of 3,
\* and 0 otherwise, whatever the other items are.
C7_ItemDescriptionRule ==
    Scored =>
        /\ Len(task[1].locals.added) = Len(task[1].receipt.items)
        /\ \A i \in 1..Len(task[1].receipt.items) :
              LET it == task[1].receipt.items[i]
              IN  /\ it.price = <<"a", "b">> => task[1].locals.added[i] = U(0)
                  /\ it.price \in {<<"5", ".", "0", "0">>, <<"6", ".", "4", "9">>}
                        => task[1].locals.added[i] =
                              IF CharLen(Trim(it.desc)) % 3 = 0
                              THEN U(ClaimedCeil(it.price))
                              ELSE U(0)

\* The sum of the usize values of seq from i on, added to acc, and whether
\* it left 64 bits.
RECURSIVE SumFrom(_, _, _)
SumFrom(seq, i, acc) ==
    IF i > Len(seq) THEN acc
    ELSE SumFrom(seq, i + 1,
                 [v |-> AddU(acc.v, seq[i]).v,
                  overflow |-> acc.overflow \/ AddU(acc.v, seq[i]).overflow])

\* The contributions of the rules to the request's score.
Contributions(l) ==
    <<l.alphanum, l.round, l.quarter, l.pairs>> \o l.added \o <<l.odd, l.time>>

\* C8: scoring never fails: no process_receipt panics, and the score it
\* stores is the sum of the rules' contributions, never a wrapped value.
C8_ScoringNeverFails ==
    /\ task[1].pc # "panicked"
    /\ ProcessDone(1) =>
          /\ ~SumFrom(Contributions(task[1].locals), 1,
                      [v |-> U(0), overflow |-> FALSE]).overflow
          /\ ID_MAP[task[1].resp_id] =
                FormatUsize(SumFrom(Contributions(task[1].locals), 1,
                                    [v |-> U(0), overflow |-> FALSE]).v)

\* The receipts that differ from rc in one field, which turns one rule on
\* or off: the time, the date, the total (the quarter rule), the retailer.
Toggles(rc) ==
    {[rc EXCEPT !.time = x] : x \in {<<>>, TimeString(14, 30)}}
        \cup {[rc EXCEPT !.date = x] :
                x \in {<<>>, <<"2", "0", "2", "2", "-", "0", "1", "-", "0", "1">>}}
        \cup {[rc EXCEPT !.total = x] : x \in {<<>>, <<"0", ".", "2", "5">>}}
        \cup {[rc EXCEPT !.retailer = x] : x \in {<<>>, <<"T">>}}

\* What the rules of the toggled fields contribute, a small number.
ToggledSum(l) ==
    AddU(AddU(AddU(l.alphanum, l.round).v, l.quarter).v,
         AddU(l.odd, l.time).v).v

\* The scores of l and m differ by exactly what their toggled rules differ
\* by: l.points + toggled(m) = m.points + toggled(l), in unbounded integers.
ExactDifference(l, m) ==
    /\ ~AddU(l.points, ToggledSum(m)).overflow
    /\ ~AddU(m.points, ToggledSum(l)).overflow
    /\ AddU(l.points, ToggledSum(m)).v = AddU(m.points, ToggledSum(l)).v

\* C9: the stored score is the sum of the rules' contributions, so that
\* a change of one field that turns one rule on or off changes the score by
\* exactly that rule's points.
C9_RuleIndependence ==
    ProcessDone(1) =>
        /\ ID_MAP[task[1].resp_id] = FormatUsize(task[1].locals.points)
        /\ \A alt \in Toggles(task[1].receipt) :
              /\ ~ComputePoints(alt, overflow_checks).panic
              /\ ExactDifference(task[1].locals,
                                 ComputePoints(alt, overflow_checks))

====
